---- MODULE Spec2Model ----
(***************************************************************************)
(* State-machine model of scripts/generate_data.py: the pipeline that      *)
(* turns per-state microsimulation output into district-level and          *)
(* state-level impact tables, and its two numeric leaf functions           *)
(* (calculate_gini, safe_pct_change).                                      *)
(*                                                                         *)
(* Numbers.  The program computes in IEEE float64.  The model computes in  *)
(* exact rationals <<numerator, denominator>> (denominator > 0, lowest     *)
(* terms) over small integers, for which the float64 products and sums of  *)
(* the program are exact.  NaN is <<0, 0>>; the result of a division by    *)
(* zero is <<1, 0>>.                                                       *)
(***************************************************************************)
EXTENDS Integers, Sequences, FiniteSets, TLC

VARIABLES
    pc,               \* control point of the run being modelled
    i,                \* generate_all_data: index of the loop over STATES
    attempts,         \* history: the states process_state was called for, in order
    failed,           \* history: <<state, scenario>> of each process_state that raised
    liveSims,         \* Microsimulation objects constructed and not yet reclaimed
    dataset,          \* process_state: the state's dataset (its contents)
    scenario,         \* process_state: 0 = baseline, 1..3 = the reform runs
    hh_data,          \* run_simulation: the household table returned
    person_data,      \* run_simulation: the person table returned
    districts,        \* process_state: hh_baseline[...].unique()
    baseline_metrics, \* process_state: dict district -> metrics (insertion order)
    reform_results,   \* process_state: dict reform name -> dict district -> metrics
    all_results,      \* generate_all_data: the accumulated impact records
    log,              \* history: per state that returned, what it ran and returned
    district_df,      \* generate_all_data: the district-level table
    state_df,         \* generate_all_data: the state-level table
    saved,            \* the output files written by this run
    incomes,          \* calculate_gini: argument
    weights,          \* calculate_gini: argument
    sorted_indices,   \* calculate_gini: the outcome of np.argsort(incomes)
    factor,           \* rescaling factor applied to incomes
    gini,             \* calculate_gini(incomes, weights)
    gini_scaled,      \* calculate_gini(factor * incomes, weights)
    baseline_val,     \* safe_pct_change: argument
    reform_val,       \* safe_pct_change: argument
    pct               \* safe_pct_change(baseline_val, reform_val)

pipeVars == <<i, attempts, failed, liveSims, dataset, scenario, hh_data, person_data,
              districts, baseline_metrics, reform_results, all_results, log,
              district_df, state_df, saved>>
giniVars == <<incomes, weights, sorted_indices, factor, gini, gini_scaled>>
pctVars == <<baseline_val, reform_val, pct>>
vars == <<pc, pipeVars, giniVars, pctVars>>

---------------------------------------------------------------------------
(* Bounds of the model *)

\* how many entries of STATES (a prefix of the list) the run loops over
NumStates == 2
\* how many of the catalogued dataset contents a state's dataset may have
NumDatasets == 3
\* calculate_gini inputs: length, largest value, largest weight, largest factor
MaxLen == 3
MaxValue == 2
MaxWeight == 1
MaxFactor == 2
\* safe_pct_change inputs: numerators -MaxNum..MaxNum over denominators 1..MaxDen
MaxNum == 3
MaxDen == 2

---------------------------------------------------------------------------
(* float64 arithmetic, as exact rationals *)

NaN == <<0, 0>>
DivByZero == <<1, 0>>

Abs(n) == IF n < 0 THEN -n ELSE n

RECURSIVE GCD(_, _)
GCD(a, b) == IF b = 0 THEN a ELSE GCD(b, a % b)

\* n / d in lowest terms
Reduced(n, d, g) ==
    IF d < 0 THEN <<(-n) \div g, (-d) \div g>> ELSE <<n \div g, d \div g>>

Rat(n, d) ==
    IF d = 0 THEN (IF n = 0 THEN NaN ELSE DivByZero)
    ELSE Reduced(n, d, GCD(Abs(n), Abs(d)))

R(n) == <<n, 1>>
Zero == R(0)
One == R(1)

\* np.isnan
isnan(x) == x = NaN

\* neither a NaN nor the result of a division by zero
Finite(x) == x[2] # 0

RatAdd(a, b) ==
    IF ~Finite(a) THEN a ELSE IF ~Finite(b) THEN b
    ELSE Rat(a[1] * b[2] + b[1] * a[2], a[2] * b[2])

RatNeg(a) == IF ~Finite(a) THEN a ELSE <<-a[1], a[2]>>

RatSub(a, b) == RatAdd(a, RatNeg(b))

RatMul(a, b) ==
    IF ~Finite(a) THEN a ELSE IF ~Finite(b) THEN b
    ELSE Rat(a[1] * b[1], a[2] * b[2])

RatDiv(a, b) ==
    IF ~Finite(a) THEN a ELSE IF ~Finite(b) THEN b
    ELSE IF b[1] = 0 THEN DivByZero
    ELSE Rat(a[1] * b[2], a[2] * b[1])

\* a < b; every comparison with a NaN is false
RatLt(a, b) == Finite(a) /\ Finite(b) /\ a[1] * b[2] < b[1] * a[2]

RatLe(a, b) == Finite(a) /\ Finite(b) /\ a[1] * b[2] <= b[1] * a[2]

RECURSIVE SumSeq(_)
SumSeq(s) == IF s = <<>> THEN 0 ELSE s[1] + SumSeq(Tail(s))

RECURSIVE RatSum(_)
RatSum(s) == IF s = <<>> THEN Zero ELSE RatAdd(s[1], RatSum(Tail(s)))

\* Python's min(1, x) and max(0, x): the first argument is kept unless the
\* second compares strictly below (above) it
Min1(x) == IF RatLt(x, One) THEN x ELSE One
Max0(x) == IF RatLt(Zero, x) THEN x ELSE Zero

---------------------------------------------------------------------------
(* safe_pct_change *)

safe_pct_change_unguarded(baseline, reform) ==
    IF isnan(reform) THEN Zero
    ELSE RatDiv(RatSub(baseline, reform), reform)

safe_pct_change(baseline, reform) ==
    IF reform = Zero \/ isnan(reform) THEN Zero
    ELSE RatDiv(RatSub(baseline, reform), reform)

---------------------------------------------------------------------------
(* calculate_gini *)

\* the permutations np.argsort(a) may return: those that put a in ascending
\* order (the default sort kind is not stable, so ties may come in any order)
RECURSIVE argsort_of(_, _)
argsort_of(a, left) ==
    IF left = {} THEN {<<>>}
    ELSE UNION {{<<m>> \o rest : rest \in argsort_of(a, left \ {m})} :
                m \in {x \in left : \A y \in left : a[x] <= a[y]}}

argsort(a) == argsort_of(a, 1..Len(a))

\* np.cumsum
RECURSIVE cumsum(_)
cumsum(a) ==
    IF a = <<>> THEN <<>>
    ELSE LET front == cumsum(SubSeq(a, 1, Len(a) - 1))
         IN  Append(front, (IF front = <<>> THEN 0 ELSE front[Len(front)]) + a[Len(a)])

\* np.trapz(y, x)
trapz(y, x) ==
    RatSum([k \in 1..(Len(x) - 1) |->
        RatDiv(RatMul(RatSub(x[k + 1], x[k]), RatAdd(y[k + 1], y[k])), R(2))])

\* cum / total, elementwise
normalise(cum, total) == [k \in 1..Len(cum) |-> Rat(cum[k], total)]

\* the cumulative income is not divided by the total income
lorenz_gini_income_not_normalised(incs, wts, order) ==
    LET n == Len(incs)
        sorted_incomes == [k \in 1..n |-> incs[order[k]]]
        sorted_weights == [k \in 1..n |-> wts[order[k]]]
        cum_weights == cumsum(sorted_weights)
        cum_income == cumsum([k \in 1..n |-> sorted_incomes[k] * sorted_weights[k]])
        total_weight == cum_weights[n]
        total_income == cum_income[n]
    IN  IF total_income = 0 THEN Zero
        ELSE
        LET cum_weights_norm == normalise(cum_weights, total_weight)
            cum_income_norm == [k \in 1..n |-> R(cum_income[k])]
            area_under == trapz(cum_income_norm, cum_weights_norm)
            g == RatSub(One, RatMul(R(2), area_under))
        IN  Max0(Min1(g))

\* calculate_gini below its first guard
lorenz_gini(incs, wts, order) ==
    LET n == Len(incs)
        sorted_incomes == [k \in 1..n |-> incs[order[k]]]
        sorted_weights == [k \in 1..n |-> wts[order[k]]]
        cum_weights == cumsum(sorted_weights)
        cum_income == cumsum([k \in 1..n |-> sorted_incomes[k] * sorted_weights[k]])
        total_weight == cum_weights[n]
        total_income == cum_income[n]
    IN  IF total_income = 0 THEN Zero
        ELSE
        LET cum_weights_norm == normalise(cum_weights, total_weight)
            cum_income_norm == normalise(cum_income, total_income)
            area_under == trapz(cum_income_norm, cum_weights_norm)
            g == RatSub(One, RatMul(R(2), area_under))
        IN  Max0(Min1(g))

calculate_gini_nan_when_empty(incs, wts, order) ==
    IF Len(incs) = 0 \/ SumSeq(wts) = 0 THEN NaN
    ELSE lorenz_gini(incs, wts, order)

\* calculate_gini(incomes, weights), given the outcome of np.argsort(incomes)
calculate_gini(incs, wts, order) ==
    IF Len(incs) = 0 \/ SumSeq(wts) = 0 THEN Zero
    ELSE lorenz_gini(incs, wts, order)

---------------------------------------------------------------------------
(* Program constants and the datasets the run may meet *)

\* the first NumStates entries of STATES
STATES == SubSeq(<<"AL", "AK", "AZ">>, 1, NumStates)

STATE_FIPS == [AL |-> 1, AK |-> 2, AZ |-> 4]

\* the reform scenarios of process_state, in the order they are run
REFORMS == <<"CTCs", "EITCs", "CTCs and EITCs">>

\* a missing congressional_district_geoid (pd.isna)
NA == -1

HH(id, w, d, net, gap, eq, n) ==
    [household_id |-> id, household_weight |-> w, congressional_district_geoid |-> d,
     household_net_income |-> net, poverty_gap |-> gap,
     equiv_household_net_income |-> eq, household_count_people |-> n]

PN(id, hh, w, pov, child) ==
    [person_id |-> id, person_household_id |-> hh, person_weight |-> w,
     in_poverty |-> pov, is_child |-> child]

\* What the engine computes for dataset contents ds under scenario scen
\* (0 = baseline, 1..3 = REFORMS), with districts numbered within the state:
\* d1 and d2 are the state's first and second district.  Within a district no
\* two households have the same equivalised income.
EngineOutput(ds, scen, d1, d2) ==
    CASE ds = 1 ->
          \* the reforms lower incomes; household 3 has no district in the CTCs run
          [hh |-> CASE scen = 0 -> <<HH(1, 2, d1, 50, 0, 30, 2), HH(2, 1, d1, 10, 4, 10, 1),
                                     HH(3, 1, d2, 20, 2, 20, 1), HH(4, 1, 0, 40, 1, 40, 1)>>
                    [] scen = 1 -> <<HH(1, 2, d1, 44, 1, 26, 2), HH(2, 1, d1, 8, 6, 8, 1),
                                     HH(3, 1, NA, 20, 2, 20, 1), HH(4, 1, 0, 40, 1, 40, 1)>>
                    [] scen = 2 -> <<HH(1, 2, d1, 48, 0, 29, 2), HH(2, 1, d1, 9, 5, 9, 1),
                                     HH(3, 1, d2, 18, 3, 18, 1), HH(4, 1, 0, 40, 1, 40, 1)>>
                    [] OTHER    -> <<HH(1, 2, d1, 42, 1, 25, 2), HH(2, 1, d1, 7, 7, 7, 1),
                                     HH(3, 1, d2, 18, 3, 18, 1), HH(4, 1, 0, 40, 1, 40, 1)>>,
           person |-> IF scen \in {0, 2}
                      THEN <<PN(1, 1, 2, FALSE, FALSE), PN(2, 1, 1, FALSE, TRUE),
                             PN(3, 2, 1, TRUE, TRUE), PN(4, 3, 1, TRUE, FALSE),
                             PN(5, 4, 1, TRUE, TRUE)>>
                      ELSE <<PN(1, 1, 2, FALSE, FALSE), PN(2, 1, 1, TRUE, TRUE),
                             PN(3, 2, 1, TRUE, TRUE), PN(4, 3, 1, TRUE, FALSE),
                             PN(5, 4, 1, TRUE, TRUE)>>]
      [] ds = 2 ->
          \* one district; person weights are zero except in the CTCs run, which
          \* also has a household in a district the baseline does not have
          [hh |-> CASE scen = 0 -> <<HH(1, 1, d1, 20, 3, 20, 1), HH(2, 1, d1, 30, 0, 30, 2)>>
                    [] scen = 1 -> <<HH(1, 1, d1, 20, 3, 20, 1), HH(2, 1, d1, 30, 0, 30, 2),
                                     HH(3, 1, d2, 15, 0, 15, 1)>>
                    [] scen = 2 -> <<HH(1, 1, d1, 25, 1, 25, 1), HH(2, 1, d1, 30, 0, 30, 2)>>
                    [] OTHER    -> <<HH(1, 1, d1, 20, 0, 20, 1), HH(2, 1, d1, 30, 0, 30, 2)>>,
           person |-> IF scen = 1
                      THEN <<PN(1, 1, 1, TRUE, FALSE), PN(2, 2, 1, FALSE, TRUE),
                             PN(3, 2, 1, FALSE, FALSE), PN(4, 3, 1, TRUE, TRUE)>>
                      ELSE <<PN(1, 1, 0, TRUE, FALSE), PN(2, 2, 0, FALSE, TRUE),
                             PN(3, 2, 0, FALSE, FALSE)>>]
      [] ds = 3 ->
          \* no household has a valid district
          [hh |-> <<HH(1, 1, 0, 20, 3, 20, 1), HH(2, 1, NA, 30, 0, 30, 2)>>,
           person |-> <<PN(1, 1, 1, TRUE, FALSE), PN(2, 2, 1, FALSE, TRUE)>>]
      [] OTHER ->
          \* two one-household districts; the reform runs lose one or both
          [hh |-> CASE scen = 0 -> <<HH(1, 1, d1, 10, 0, 10, 1), HH(2, 1, d2, 12, 1, 12, 1)>>
                    [] scen = 1 -> <<HH(2, 1, d2, 6, 2, 6, 1)>>
                    [] scen = 2 -> <<HH(1, 1, d1, 10, 0, 10, 1), HH(2, 1, d2, 12, 1, 12, 1)>>
                    [] OTHER    -> <<>>,
           person |-> IF scen = 3 THEN <<>>
                      ELSE <<PN(1, 1, 1, FALSE, TRUE), PN(2, 2, 1, scen = 1, FALSE)>>]

\* sim.calculate_dataframe for the dataset of `state`: district geoids are the
\* state FIPS code times 100 plus the district number
Simulate(ds, state, scen) ==
    EngineOutput(ds, scen, STATE_FIPS[state] * 100 + 1, STATE_FIPS[state] * 100 + 2)

---------------------------------------------------------------------------
(* calculate_district_metrics *)

\* dicts are sequences of records in insertion order
Has(dict, key, k) == \E x \in 1..Len(dict) : dict[x][key] = k
Get(dict, key, k) == dict[CHOOSE x \in 1..Len(dict) : dict[x][key] = k]
Put(dict, key, rec) ==
    IF Has(dict, key, rec[key])
    THEN [x \in 1..Len(dict) |-> IF dict[x][key] = rec[key] THEN rec ELSE dict[x]]
    ELSE Append(dict, rec)

\* Series.unique(): the distinct values in order of first appearance
RECURSIVE unique(_)
unique(s) ==
    IF s = <<>> THEN <<>>
    ELSE LET front == unique(SubSeq(s, 1, Len(s) - 1))
             last == s[Len(s)]
         IN  IF \E x \in 1..Len(front) : front[x] = last THEN front
             ELSE Append(front, last)

Column(table, col) == [x \in 1..Len(table) |-> table[x][col]]

\* the loop body of calculate_district_metrics for one valid district
\* the child poverty rate is taken over every person of the district
district_metrics_children_unfiltered(hh, person, district) ==
    LET hh_subset == SelectSeq(hh, LAMBDA h : h.congressional_district_geoid = district)
        hh_ids == {hh_subset[x].household_id : x \in 1..Len(hh_subset)}
        n == Len(hh_subset)
        net_income == SumSeq([x \in 1..n |->
            hh_subset[x].household_net_income * hh_subset[x].household_weight])
        poverty_gap == SumSeq([x \in 1..n |->
            hh_subset[x].poverty_gap * hh_subset[x].household_weight])
        equiv_incomes == Column(hh_subset, "equiv_household_net_income")
        gini_weights == [x \in 1..n |->
            hh_subset[x].household_weight * hh_subset[x].household_count_people]
        gini_index == calculate_gini(equiv_incomes, gini_weights,
                                     CHOOSE p \in argsort(equiv_incomes) : TRUE)
        person_subset == SelectSeq(person, LAMBDA p : p.person_household_id \in hh_ids)
        PoorWeight(ps) == SumSeq([x \in 1..Len(ps) |->
            IF ps[x].in_poverty THEN ps[x].person_weight ELSE 0])
        total_person_weight == SumSeq(Column(person_subset, "person_weight"))
        poverty == IF total_person_weight > 0
                   THEN Rat(PoorWeight(person_subset), total_person_weight)
                   ELSE Zero
        children == person_subset
        total_child_weight == SumSeq(Column(children, "person_weight"))
        child_poverty == IF total_child_weight > 0
                         THEN Rat(PoorWeight(children), total_child_weight)
                         ELSE Zero
    IN  [district |-> district, net_income |-> R(net_income), poverty |-> poverty,
         child_poverty |-> child_poverty, poverty_gap |-> R(poverty_gap),
         gini_index |-> gini_index]

district_metrics(hh, person, district) ==
    LET hh_subset == SelectSeq(hh, LAMBDA h : h.congressional_district_geoid = district)
        hh_ids == {hh_subset[x].household_id : x \in 1..Len(hh_subset)}
        n == Len(hh_subset)
        net_income == SumSeq([x \in 1..n |->
            hh_subset[x].household_net_income * hh_subset[x].household_weight])
        poverty_gap == SumSeq([x \in 1..n |->
            hh_subset[x].poverty_gap * hh_subset[x].household_weight])
        equiv_incomes == Column(hh_subset, "equiv_household_net_income")
        gini_weights == [x \in 1..n |->
            hh_subset[x].household_weight * hh_subset[x].household_count_people]
        gini_index == calculate_gini(equiv_incomes, gini_weights,
                                     CHOOSE p \in argsort(equiv_incomes) : TRUE)
        person_subset == SelectSeq(person, LAMBDA p : p.person_household_id \in hh_ids)
        PoorWeight(ps) == SumSeq([x \in 1..Len(ps) |->
            IF ps[x].in_poverty THEN ps[x].person_weight ELSE 0])
        total_person_weight == SumSeq(Column(person_subset, "person_weight"))
        poverty == IF total_person_weight > 0
                   THEN Rat(PoorWeight(person_subset), total_person_weight)
                   ELSE Zero
        children == SelectSeq(person_subset, LAMBDA p : p.is_child)
        total_child_weight == SumSeq(Column(children, "person_weight"))
        child_poverty == IF total_child_weight > 0
                         THEN Rat(PoorWeight(children), total_child_weight)
                         ELSE Zero
    IN  [district |-> district, net_income |-> R(net_income), poverty |-> poverty,
         child_poverty |-> child_poverty, poverty_gap |-> R(poverty_gap),
         gini_index |-> gini_index]

\* only a missing district is skipped, district 0 is not
RECURSIVE metrics_loop_zero_kept(_, _, _, _)
metrics_loop_zero_kept(hh, person, ds, results) ==
    IF ds = <<>> THEN results
    ELSE IF Head(ds) = NA
         THEN metrics_loop_zero_kept(hh, person, Tail(ds), results)
         ELSE metrics_loop_zero_kept(hh, person, Tail(ds),
                           Put(results, "district", district_metrics(hh, person, Head(ds))))

RECURSIVE metrics_loop(_, _, _, _)
metrics_loop(hh, person, ds, results) ==
    IF ds = <<>> THEN results
    ELSE IF Head(ds) = NA \/ Head(ds) = 0
         THEN metrics_loop(hh, person, Tail(ds), results)
         ELSE metrics_loop(hh, person, Tail(ds),
                           Put(results, "district", district_metrics(hh, person, Head(ds))))

calculate_district_metrics(hh, person, ds) == metrics_loop(hh, person, ds, <<>>)

---------------------------------------------------------------------------
(* process_state: the impact records *)

\* the percentage changes are not negated
impact_record_not_negated(state, district, reform_type, baseline, reform) ==
    [congressional_district_geoid |-> district,
     state_fips |-> STATE_FIPS[state],
     state |-> state,
     reform_type |-> reform_type,
     cost |-> RatSub(baseline.net_income, reform.net_income),
     poverty_pct_cut |-> safe_pct_change(baseline.poverty, reform.poverty),
     child_poverty_pct_cut |->
         safe_pct_change(baseline.child_poverty, reform.child_poverty),
     poverty_gap_pct_cut |->
         safe_pct_change(baseline.poverty_gap, reform.poverty_gap),
     gini_index_pct_cut |->
         safe_pct_change(baseline.gini_index, reform.gini_index)]

impact_record(state, district, reform_type, baseline, reform) ==
    [congressional_district_geoid |-> district,
     state_fips |-> STATE_FIPS[state],
     state |-> state,
     reform_type |-> reform_type,
     cost |-> RatSub(baseline.net_income, reform.net_income),
     poverty_pct_cut |-> RatNeg(safe_pct_change(baseline.poverty, reform.poverty)),
     child_poverty_pct_cut |->
         RatNeg(safe_pct_change(baseline.child_poverty, reform.child_poverty)),
     poverty_gap_pct_cut |->
         RatNeg(safe_pct_change(baseline.poverty_gap, reform.poverty_gap)),
     gini_index_pct_cut |->
         RatNeg(safe_pct_change(baseline.gini_index, reform.gini_index))]

\* the nested loop over baseline_metrics and reform_results, from the d-th
\* district and the r-th reform on
RECURSIVE impacts_from(_, _, _, _, _)
impacts_from(state, bm, rr, d, r) ==
    IF d > Len(bm) THEN <<>>
    ELSE IF r > Len(rr) THEN impacts_from(state, bm, rr, d + 1, 1)
    ELSE LET rest == impacts_from(state, bm, rr, d, r + 1)
         IN  IF ~Has(rr[r].metrics, "district", bm[d].district) THEN rest
             ELSE <<impact_record(state, bm[d].district, rr[r].reform_type, bm[d],
                                  Get(rr[r].metrics, "district", bm[d].district))>> \o rest

calculate_impacts(state, bm, rr) == impacts_from(state, bm, rr, 1, 1)

---------------------------------------------------------------------------
(* generate_all_data: the two output tables *)

\* the order of the reform_type strings
ReformRank(r) == CASE r = "CTCs" -> 1 [] r = "CTCs and EITCs" -> 2 [] OTHER -> 3

SortKeyLe(a, b) ==
    \/ a.state_fips < b.state_fips
    \/ /\ a.state_fips = b.state_fips
       /\ \/ a.congressional_district_geoid < b.congressional_district_geoid
          \/ /\ a.congressional_district_geoid = b.congressional_district_geoid
             /\ ReformRank(a.reform_type) <= ReformRank(b.reform_type)

\* r inserted after the last row whose key is not above r's
RECURSIVE insert_sorted(_, _)
insert_sorted(sorted, r) ==
    IF sorted = <<>> THEN <<r>>
    ELSE IF SortKeyLe(sorted[Len(sorted)], r) THEN Append(sorted, r)
    ELSE Append(insert_sorted(SubSeq(sorted, 1, Len(sorted) - 1), r), sorted[Len(sorted)])

\* the rows are left in the order they were accumulated
sort_values_skipped(rows) == rows

\* DataFrame.sort_values on the three key columns (a stable sort)
RECURSIVE sort_values(_)
sort_values(rows) ==
    IF rows = <<>> THEN <<>>
    ELSE insert_sorted(sort_values(SubSeq(rows, 1, Len(rows) - 1)), rows[Len(rows)])

\* the sum in place of the mean
Mean_is_sum(s) == RatSum(s)

\* Series.mean()
Mean(s) == RatDiv(RatSum(s), R(Len(s)))

state_row(state, reform_type, reform_data) ==
    [state |-> state,
     reform_type |-> reform_type,
     cost |-> RatSum(Column(reform_data, "cost")),
     poverty_pct_cut |-> Mean(Column(reform_data, "poverty_pct_cut")),
     child_poverty_pct_cut |-> Mean(Column(reform_data, "child_poverty_pct_cut")),
     poverty_gap_pct_cut |-> Mean(Column(reform_data, "poverty_gap_pct_cut")),
     gini_index_pct_cut |-> Mean(Column(reform_data, "gini_index_pct_cut"))]

\* the aggregation loops, from the s-th state and the r-th reform type on
RECURSIVE aggregate_from(_, _, _, _, _)
aggregate_from(df, states, types, s, r) ==
    IF s > Len(states) THEN <<>>
    ELSE IF r > Len(types) THEN aggregate_from(df, states, types, s + 1, 1)
    ELSE LET reform_data == SelectSeq(df, LAMBDA row :
                 row.state = states[s] /\ row.reform_type = types[r])
             rest == aggregate_from(df, states, types, s, r + 1)
         IN  IF Len(reform_data) = 0 THEN rest
             ELSE <<state_row(states[s], types[r], reform_data)>> \o rest

aggregate_states(df) == aggregate_from(df, unique(Column(df, "state")), REFORMS, 1, 1)

---------------------------------------------------------------------------
(* Initial values *)

Unset == <<>>

PipeInit ==
    /\ i = 1
    /\ attempts = <<>>
    /\ failed = {}
    /\ liveSims = {}
    /\ dataset = 0
    /\ scenario = 0
    /\ hh_data = <<>>
    /\ person_data = <<>>
    /\ districts = <<>>
    /\ baseline_metrics = <<>>
    /\ reform_results = <<>>
    /\ all_results = <<>>
    /\ log = <<>>
    /\ district_df = <<>>
    /\ state_df = <<>>
    /\ saved = {}

GiniIdle ==
    /\ incomes = <<>>
    /\ weights = <<>>
    /\ sorted_indices = <<>>
    /\ factor = 1
    /\ gini = Unset
    /\ gini_scaled = Unset

PctIdle ==
    /\ baseline_val = Unset
    /\ reform_val = Unset
    /\ pct = Unset

---------------------------------------------------------------------------
(* The pipeline run: generate_all_data, process_state, run_simulation *)

Init ==
    /\ pc = "loop"
    /\ PipeInit
    /\ GiniIdle
    /\ PctIdle

others == <<giniVars, pctVars>>

\* the locals of process_state and run_simulation go with their frames
DropLocals ==
    /\ dataset' = 0
    /\ scenario' = 0
    /\ hh_data' = <<>>
    /\ person_data' = <<>>
    /\ districts' = <<>>
    /\ baseline_metrics' = <<>>
    /\ reform_results' = <<>>

\* the loop takes the next state and calls process_state, whose dataset has
\* one of the catalogued contents
NextState ==
    /\ pc = "loop"
    /\ i <= Len(STATES)
    /\ \E ds \in 1..NumDatasets : dataset' = ds
    /\ attempts' = Append(attempts, STATES[i])
    /\ scenario' = 0
    /\ pc' = "construct"
    /\ UNCHANGED <<i, failed, liveSims, hh_data, person_data, districts, baseline_metrics,
                   reform_results, all_results, log, district_df, state_df, saved, others>>

\* run_simulation: Microsimulation(...) returns a simulation
ConstructOK ==
    /\ pc = "construct"
    /\ liveSims' = liveSims \cup {<<i, scenario>>}
    /\ pc' = "extract"
    /\ UNCHANGED <<i, attempts, failed, dataset, scenario, hh_data, person_data, districts,
                   baseline_metrics, reform_results, all_results, log, district_df,
                   state_df, saved, others>>

\* run_simulation: Microsimulation(...) raises; no simulation was bound
ConstructFail ==
    /\ pc = "construct"
    /\ pc' = "handler"
    /\ UNCHANGED <<pipeVars, others>>

\* run_simulation: both tables are extracted, then `del sim; gc.collect()`
\* reclaims every unreachable simulation, and the tables are returned
ExtractOK ==
    /\ pc = "extract"
    /\ hh_data' = Simulate(dataset, STATES[i], scenario).hh
    /\ person_data' = Simulate(dataset, STATES[i], scenario).person
    /\ liveSims' = {}
    /\ pc' = "metrics"
    /\ UNCHANGED <<i, attempts, failed, dataset, scenario, districts, baseline_metrics,
                   reform_results, all_results, log, district_df, state_df, saved, others>>

\* run_simulation: calculate_dataframe raises; the statements after it do not
\* run and the exception's traceback keeps the frame, and with it sim
ExtractFail ==
    /\ pc = "extract"
    /\ pc' = "handler"
    /\ UNCHANGED <<pipeVars, others>>

\* process_state: the metrics of the run's tables are computed and kept, the
\* tables are deleted; after the third reform the impacts are next
MetricsOK ==
    /\ pc = "metrics"
    /\ IF scenario = 0
       THEN LET ds == unique(Column(hh_data, "congressional_district_geoid"))
            IN  /\ districts' = ds
                /\ baseline_metrics' = calculate_district_metrics(hh_data, person_data, ds)
                /\ UNCHANGED reform_results
       ELSE /\ reform_results' = Put(reform_results, "reform_type",
                   [reform_type |-> REFORMS[scenario],
                    metrics |-> calculate_district_metrics(hh_data, person_data, districts)])
            /\ UNCHANGED <<districts, baseline_metrics>>
    /\ hh_data' = <<>>
    /\ person_data' = <<>>
    /\ liveSims' = {}
    /\ IF scenario < Len(REFORMS)
       THEN scenario' = scenario + 1 /\ pc' = "construct"
       ELSE scenario' = scenario /\ pc' = "impacts"
    /\ UNCHANGED <<i, attempts, failed, dataset, all_results, log, district_df, state_df,
                   saved, others>>

\* process_state: the metric computation raises
MetricsFail ==
    /\ pc = "metrics"
    /\ pc' = "handler"
    /\ UNCHANGED <<pipeVars, others>>

\* process_state computes and returns the impact records; generate_all_data
\* extends all_results with them, collects garbage and goes on
ReturnResults ==
    /\ pc = "impacts"
    /\ LET results == calculate_impacts(STATES[i], baseline_metrics, reform_results)
       IN  /\ all_results' = all_results \o results
           /\ log' = Append(log, [state |-> STATES[i], dataset |-> dataset,
                                  baseline_metrics |-> baseline_metrics,
                                  reform_results |-> reform_results,
                                  results |-> results])
    /\ liveSims' = {}
    /\ DropLocals
    /\ i' = i + 1
    /\ pc' = "loop"
    /\ UNCHANGED <<attempts, failed, district_df, state_df, saved, others>>

\* the loop stops at the first failure
HandleError_break ==
    /\ pc = "handler"
    /\ failed' = failed \cup {<<STATES[i], scenario>>}
    /\ DropLocals
    /\ liveSims' = {}
    /\ i' = Len(STATES) + 1
    /\ pc' = "loop"
    /\ UNCHANGED <<attempts, all_results, log, district_df, state_df, saved, others>>

\* generate_all_data: the except clause prints the error and continues.  When
\* it ends the exception is dropped; a simulation it still held is unreachable
\* from then on, and is either reclaimed at once or left to a later collection
HandleError ==
    /\ pc = "handler"
    /\ failed' = failed \cup {<<STATES[i], scenario>>}
    /\ DropLocals
    /\ \E reclaimed \in BOOLEAN : liveSims' = IF reclaimed THEN {} ELSE liveSims
    /\ i' = i + 1
    /\ pc' = "loop"
    /\ UNCHANGED <<attempts, all_results, log, district_df, state_df, saved, others>>

\* generate_all_data after the loop, nothing accumulated: returns (None, None)
NoResults ==
    /\ pc = "loop"
    /\ i > Len(STATES)
    /\ all_results = <<>>
    /\ pc' = "done"
    /\ UNCHANGED <<pipeVars, others>>

\* the state table is built and never written
SaveTables_district_only ==
    /\ pc = "loop"
    /\ i > Len(STATES)
    /\ all_results # <<>>
    /\ district_df' = sort_values(all_results)
    /\ state_df' = aggregate_states(district_df')
    /\ saved' = {"data/district_impacts.csv"}
    /\ pc' = "done"
    /\ UNCHANGED <<i, attempts, failed, liveSims, dataset, scenario, hh_data, person_data,
                   districts, baseline_metrics, reform_results, all_results, log, others>>

\* generate_all_data after the loop: the district table is built, sorted and
\* written, the state table is aggregated from it and written
SaveTables ==
    /\ pc = "loop"
    /\ i > Len(STATES)
    /\ all_results # <<>>
    /\ district_df' = sort_values(all_results)
    /\ state_df' = aggregate_states(district_df')
    /\ saved' = {"data/district_impacts.csv", "data/state_impacts.csv"}
    /\ pc' = "done"
    /\ UNCHANGED <<i, attempts, failed, liveSims, dataset, scenario, hh_data, person_data,
                   districts, baseline_metrics, reform_results, all_results, log, others>>

Next ==
    \/ NextState
    \/ ConstructOK
    \/ ConstructFail
    \/ ExtractOK
    \/ ExtractFail
    \/ MetricsOK
    \/ MetricsFail
    \/ ReturnResults
    \/ HandleError
    \/ NoResults
    \/ SaveTables

Spec == Init /\ [][Next]_vars

---------------------------------------------------------------------------
(* calculate_gini applied to every input within the bounds *)

SeqsUpTo(S, n) == UNION {[1..k -> S] : k \in 0..n}

Scaled(k, a) == [x \in 1..Len(a) |-> k * a[x]]

GiniInit ==
    /\ pc = "gini_input"
    /\ PipeInit
    /\ PctIdle
    /\ incomes \in SeqsUpTo(0..MaxValue, MaxLen)
    /\ weights \in [1..Len(incomes) -> 0..MaxWeight]
    /\ sorted_indices \in argsort(incomes)
    /\ factor \in 1..MaxFactor
    /\ gini = Unset
    /\ gini_scaled = Unset

\* the same comparisons decide the order of factor * incomes, so np.argsort
\* returns the same permutation for both
CalcGini ==
    /\ pc = "gini_input"
    /\ gini' = calculate_gini(incomes, weights, sorted_indices)
    /\ gini_scaled' = calculate_gini(Scaled(factor, incomes), weights, sorted_indices)
    /\ pc' = "gini_done"
    /\ UNCHANGED <<pipeVars, pctVars, incomes, weights, sorted_indices, factor>>

GiniNext == CalcGini

GiniSpec == GiniInit /\ [][GiniNext]_vars

---------------------------------------------------------------------------
(* safe_pct_change applied to every input within the bounds *)

PctValues == {Rat(n, d) : n \in (-MaxNum)..MaxNum, d \in 1..MaxDen} \cup {NaN}

PctInit ==
    /\ pc = "pct_input"
    /\ PipeInit
    /\ GiniIdle
    /\ baseline_val \in PctValues
    /\ reform_val \in PctValues
    /\ pct = Unset

CalcPct ==
    /\ pc = "pct_input"
    /\ pct' = safe_pct_change(baseline_val, reform_val)
    /\ pc' = "pct_done"
    /\ UNCHANGED <<pipeVars, giniVars, baseline_val, reform_val>>

PctNext == CalcPct

PctSpec == PctInit /\ [][PctNext]_vars

---------------------------------------------------------------------------
(* Properties *)

OutputFiles == {"data/district_impacts.csv", "data/state_impacts.csv"}

StateSet == {STATES[k] : k \in 1..Len(STATES)}
Returned == {log[k].state : k \in 1..Len(log)}
Failed == {f[1] : f \in failed}
LogOf(s) == log[CHOOSE k \in 1..Len(log) : log[k].state = s]
HasRows(table, s) == \E k \in 1..Len(table) : table[k].state = s

\* C1: process_state is called for every state of STATES exactly once and in
\* list order (the calls made so far are always a prefix of STATES), and the
\* run ends only after all of them were called, whichever of them raised.
C1_EveryStateAttemptedOnce ==
    /\ Len(attempts) <= Len(STATES)
    /\ attempts = SubSeq(STATES, 1, Len(attempts))
    /\ Failed \cup Returned \subseteq {attempts[k] : k \in 1..Len(attempts)}
    /\ pc = "done" => /\ attempts = STATES
                      /\ Failed \cup Returned = StateSet
                      /\ Failed \cap Returned = {}

\* the run ended, the first state raised and the last state still returned
C1_Witness ==
    /\ pc = "done"
    /\ STATES[1] \in Failed
    /\ STATES[Len(STATES)] \in Returned
    /\ attempts = STATES

\* C2 as stated: when the run ends both tables are written, and a state has
\* rows in them exactly if its process_state returned.
C2_TablesReflectReturnedStates ==
    pc = "done" =>
        /\ saved = OutputFiles
        /\ \A s \in StateSet :
            /\ HasRows(district_df, s) <=> s \in Returned
            /\ HasRows(state_df, s) <=> s \in Returned

\* C2 amended: when the run ends having accumulated at least one impact
\* record, both tables are written and a state has rows in them exactly if its
\* process_state returned at least one record, so a state that raised has
\* none; when no record was accumulated nothing is written.
C2_TablesReflectStatesWithRecords ==
    pc = "done" =>
        IF \E k \in 1..Len(log) : log[k].results # <<>>
        THEN /\ saved = OutputFiles
             /\ \A s \in StateSet :
                 /\ HasRows(district_df, s) <=> (s \in Returned /\ LogOf(s).results # <<>>)
                 /\ HasRows(state_df, s) <=> (s \in Returned /\ LogOf(s).results # <<>>)
                 /\ s \in Failed => ~HasRows(district_df, s) /\ ~HasRows(state_df, s)
        ELSE /\ saved = {}
             /\ district_df = <<>>
             /\ state_df = <<>>

\* the run ended with both tables written, after one state raised in a reform
\* run that followed a completed baseline and reform run, and another returned
C2_Witness ==
    /\ pc = "done"
    /\ saved = OutputFiles
    /\ \E f \in failed : f[2] >= 2 /\ ~HasRows(district_df, f[1])
    /\ \E s \in Returned : HasRows(district_df, s) /\ HasRows(state_df, s)

\* C3: at most one simulation is live at any point, and none is outside the
\* part of run_simulation between constructing it and returning or raising.
C3_AtMostOneLiveSimulation ==
    /\ Cardinality(liveSims) <= 1
    /\ pc # "extract" => liveSims = {}

ValidDistricts(hh) ==
    {hh[k].congressional_district_geoid : k \in 1..Len(hh)} \ {0, NA}

\* C4: for a state that returned, a reform run whose household table has a
\* strict subset of the baseline's districts yields no record for a missing
\* district and fewer records than the baseline has districts.
C4_MissingDistrictOmitted ==
    \A k \in 1..Len(log) : \A r \in 1..Len(REFORMS) :
        LET e == log[k]
            base == ValidDistricts(Simulate(e.dataset, e.state, 0).hh)
            ref == ValidDistricts(Simulate(e.dataset, e.state, r).hh)
            rows == SelectSeq(e.results, LAMBDA row : row.reform_type = REFORMS[r])
        IN  (ref \subseteq base /\ ref # base) =>
                /\ \A x \in 1..Len(rows) :
                       rows[x].congressional_district_geoid \notin base \ ref
                /\ Len(rows) < Cardinality(base)

AllEqualPositive(vals) ==
    /\ \A x \in 1..Len(vals) : vals[x] > 0
    /\ \A x, y \in 1..Len(vals) : vals[x] = vals[y]

\* C5: calculate_gini is 0 for every non-empty population of equal positive
\* values with positive weights.
C5_EqualValuesGiniZero ==
    (pc = "gini_done" /\ Len(incomes) >= 1 /\ AllEqualPositive(incomes)
        /\ \A x \in 1..Len(weights) : weights[x] > 0)
    => gini = Zero

\* C6: calculate_gini of non-negative values and weights is a number in
\* [0, 1], and is 0 when the input is empty or the total weight is zero.
C6_GiniInUnitInterval ==
    pc = "gini_done" =>
        /\ RatLe(Zero, gini) /\ RatLe(gini, One)
        /\ (Len(incomes) = 0 \/ SumSeq(weights) = 0) => gini = Zero

\* three unequal weighted values whose Gini is strictly inside the interval
C6_Witness ==
    /\ pc = "gini_done"
    /\ Len(incomes) = MaxLen
    /\ incomes[1] # incomes[2]
    /\ SumSeq(weights) > 1
    /\ RatLt(Zero, gini) /\ RatLt(gini, One)

\* C7: calculate_gini(factor * incomes, weights) = calculate_gini(incomes,
\* weights) for every factor > 0.
C7_GiniScaleInvariant ==
    pc = "gini_done" => gini_scaled = gini

\* unequal values rescaled by a factor above 1, the Gini not at a clamp
C7_Witness ==
    /\ pc = "gini_done"
    /\ factor > 1
    /\ Len(incomes) >= 2
    /\ \E x, y \in 1..Len(incomes) : incomes[x] < incomes[y] /\ weights[x] > 0 /\ weights[y] > 0
    /\ RatLt(Zero, gini) /\ RatLt(gini, One)
    /\ gini_scaled = gini

\* C8: safe_pct_change is 0 when reform is zero or NaN, is otherwise the
\* number that times reform gives baseline - reform (NaN for a NaN baseline),
\* and is never the result of a division by zero.
C8_SafePctChange ==
    pc = "pct_done" =>
        /\ pct # DivByZero
        /\ IF reform_val = Zero \/ isnan(reform_val) THEN pct = Zero
           ELSE IF isnan(baseline_val) THEN isnan(pct)
           ELSE /\ Finite(pct)
                /\ RatMul(pct, reform_val) = RatSub(baseline_val, reform_val)

\* a non-zero baseline over a zero reform value
C8_Witness ==
    /\ pc = "pct_done"
    /\ reform_val = Zero
    /\ Finite(baseline_val) /\ baseline_val # Zero
    /\ pct = Zero

PctCutFields == {"poverty_pct_cut", "child_poverty_pct_cut", "poverty_gap_pct_cut",
                 "gini_index_pct_cut"}

MetricOf(field) ==
    CASE field = "poverty_pct_cut" -> "poverty"
      [] field = "child_poverty_pct_cut" -> "child_poverty"
      [] field = "poverty_gap_pct_cut" -> "poverty_gap"
      [] OTHER -> "gini_index"

\* the metrics a record of all_results was computed from
BaselineOf(rec) ==
    Get(LogOf(rec.state).baseline_metrics, "district", rec.congressional_district_geoid)
ReformOf(rec) ==
    Get(Get(LogOf(rec.state).reform_results, "reform_type", rec.reform_type).metrics,
        "district", rec.congressional_district_geoid)

ExampleBaseline ==
    [district |-> 101, net_income |-> R(1000000), poverty |-> Rat(10, 100),
     child_poverty |-> Zero, poverty_gap |-> Zero, gini_index |-> Zero]
ExampleReform ==
    [district |-> 101, net_income |-> R(950000), poverty |-> Rat(12, 100),
     child_poverty |-> Zero, poverty_gap |-> Zero, gini_index |-> Zero]

\* C9: every accumulated impact record has cost = baseline net income -
\* reform net income of its district, and each percent-cut is 0 for a zero
\* reform metric and (reform - baseline) / reform otherwise, hence positive
\* exactly when the reform metric is positive and above the baseline metric;
\* the spec's example gives cost 50,000 and poverty_pct_cut 1/6.
C9_ImpactRecordFields ==
    /\ \A k \in 1..Len(all_results) :
        LET rec == all_results[k]
            b == BaselineOf(rec)
            r == ReformOf(rec)
        IN  /\ RatAdd(rec.cost, r.net_income) = b.net_income
            /\ \A f \in PctCutFields :
                LET bm == b[MetricOf(f)]
                    rm == r[MetricOf(f)]
                IN  /\ Finite(rec[f])
                    /\ rm = Zero => rec[f] = Zero
                    /\ rm # Zero => RatMul(rec[f], rm) = RatSub(rm, bm)
                    /\ RatLt(Zero, rec[f]) <=> (RatLt(Zero, rm) /\ RatLt(bm, rm))
    /\ LET ex == impact_record("AL", 101, "CTCs", ExampleBaseline, ExampleReform)
       IN  ex.cost = R(50000) /\ ex.poverty_pct_cut = Rat(1, 6)

\* a record with a positive cost and a positive cut, one with a negative cut
\* and one whose reform metric is zero
C9_Witness ==
    /\ \E k \in 1..Len(all_results) :
        /\ RatLt(Zero, all_results[k].cost)
        /\ RatLt(Zero, all_results[k].poverty_pct_cut)
        /\ RatLt(BaselineOf(all_results[k]).poverty, ReformOf(all_results[k]).poverty)
    /\ \E k \in 1..Len(all_results) : RatLt(all_results[k].poverty_gap_pct_cut, Zero)
    /\ \E k \in 1..Len(all_results) :
        /\ ReformOf(all_results[k]).poverty_gap = Zero
        /\ BaselineOf(all_results[k]).poverty_gap # Zero

\* C10: in the state-level table every (state, reform_type) with at least one
\* district-level row has exactly one row, whose cost is the sum of those
\* rows' costs and whose percent-cuts are their unweighted means; a pair
\* without district-level rows has none.
C10_StateRollUp ==
    pc = "done" =>
        \A s \in StateSet : \A t \in {REFORMS[r] : r \in 1..Len(REFORMS)} :
            LET rows == SelectSeq(district_df, LAMBDA row : row.state = s /\ row.reform_type = t)
                out == SelectSeq(state_df, LAMBDA row : row.state = s /\ row.reform_type = t)
            IN  IF Len(rows) = 0 THEN Len(out) = 0
                ELSE /\ Len(out) = 1
                     /\ out[1].cost = RatSum(Column(rows, "cost"))
                     /\ \A f \in PctCutFields :
                            RatMul(out[1][f], R(Len(rows))) = RatSum(Column(rows, f))

\* a state row rolled up from two district rows with different costs and cuts
C10_Witness ==
    /\ pc = "done"
    /\ \E x \in 1..Len(state_df) :
        LET rows == SelectSeq(district_df, LAMBDA row :
                        row.state = state_df[x].state /\ row.reform_type = state_df[x].reform_type)
        IN  /\ Len(rows) = 2
            /\ rows[1].cost # rows[2].cost
            /\ rows[1].poverty_gap_pct_cut # rows[2].poverty_gap_pct_cut
            /\ state_df[x].cost = RatAdd(rows[1].cost, rows[2].cost)

\* C11: the district-level table has no two rows with the same district and
\* reform_type, and its rows ascend strictly by (state_fips, district,
\* reform_type), whichever states failed.
C11_DistrictTableSortedUnique ==
    pc = "done" =>
        /\ Len(district_df) = Len(all_results)
        /\ \A x, y \in 1..Len(district_df) :
            x # y =>
                \/ district_df[x].congressional_district_geoid
                       # district_df[y].congressional_district_geoid
                \/ district_df[x].reform_type # district_df[y].reform_type
        /\ \A x \in 1..(Len(district_df) - 1) :
            LET a == district_df[x]
                b == district_df[x + 1]
            IN  \/ a.state_fips < b.state_fips
                \/ /\ a.state_fips = b.state_fips
                   /\ a.congressional_district_geoid < b.congressional_district_geoid
                \/ /\ a.state_fips = b.state_fips
                   /\ a.congressional_district_geoid = b.congressional_district_geoid
                   /\ ReformRank(a.reform_type) < ReformRank(b.reform_type)

\* a table of two districts and three reforms that sorting reordered, written
\* by a run in which a state failed
C11_Witness ==
    /\ pc = "done"
    /\ failed # {}
    /\ Len(district_df) >= 2 * Len(REFORMS)
    /\ district_df # all_results

Keys(metrics) == {metrics[x].district : x \in 1..Len(metrics)}

\* C12: for a state that returned, the records calculate_district_metrics
\* gave for a run are keyed by exactly the valid districts passed in that
\* have a household in that run's table, one record each.
C12_OnlyDistrictsWithRows ==
    \A k \in 1..Len(log) :
        LET e == log[k]
            passed == ValidDistricts(Simulate(e.dataset, e.state, 0).hh)
        IN  /\ Keys(e.baseline_metrics) = passed
            /\ Len(e.baseline_metrics) = Cardinality(passed)
            /\ \A r \in 1..Len(REFORMS) :
                LET metrics == Get(e.reform_results, "reform_type", REFORMS[r]).metrics
                    present == ValidDistricts(Simulate(e.dataset, e.state, r).hh)
                IN  /\ Keys(metrics) = passed \cap present
                    /\ Len(metrics) = Cardinality(passed \cap present)

Invalid == {0, NA}

\* a run's tables without the households of district 0 or of no district,
\* and without their persons
ValidHouseholds(hh) ==
    SelectSeq(hh, LAMBDA h : h.congressional_district_geoid \notin Invalid)
PersonsOf(person, hh) ==
    SelectSeq(person, LAMBDA p :
        \E x \in 1..Len(hh) : hh[x].household_id = p.person_household_id)

\* the metrics a returned state kept for scenario scen
MetricsOfRun(e, scen) ==
    IF scen = 0 THEN e.baseline_metrics
    ELSE Get(e.reform_results, "reform_type", REFORMS[scen]).metrics

\* C13: no metrics record is keyed by 0 or by a missing value; the metrics of
\* every run are those of its tables with the households of such a district
\* and their persons removed; and no row of either output table has such a
\* district or sums a cost from one.
C13_InvalidDistrictsExcluded ==
    /\ Keys(baseline_metrics) \cap Invalid = {}
    /\ \A x \in 1..Len(reform_results) : Keys(reform_results[x].metrics) \cap Invalid = {}
    /\ \A k \in 1..Len(log) : \A scen \in 0..Len(REFORMS) :
        LET e == log[k]
            passed == unique(Column(Simulate(e.dataset, e.state, 0).hh,
                                    "congressional_district_geoid"))
            run == Simulate(e.dataset, e.state, scen)
            kept == ValidHouseholds(run.hh)
        IN  /\ Keys(MetricsOfRun(e, scen)) \cap Invalid = {}
            /\ MetricsOfRun(e, scen)
                   = calculate_district_metrics(kept, PersonsOf(run.person, kept), passed)
    /\ \A x \in 1..Len(all_results) :
           all_results[x].congressional_district_geoid \notin Invalid
    /\ \A x \in 1..Len(district_df) :
           district_df[x].congressional_district_geoid \notin Invalid
    /\ \A x \in 1..Len(state_df) :
           state_df[x].cost = RatSum(Column(
               SelectSeq(all_results, LAMBDA row :
                   /\ row.state = state_df[x].state
                   /\ row.reform_type = state_df[x].reform_type
                   /\ row.congressional_district_geoid \notin Invalid), "cost"))

\* both tables were written after a state returned whose baseline table has a
\* household in district 0 with a person, and one of whose runs has a
\* household of no district
C13_Witness ==
    /\ pc = "done"
    /\ state_df # <<>>
    /\ \E k \in 1..Len(log) :
        LET base == Simulate(log[k].dataset, log[k].state, 0)
        IN  /\ log[k].results # <<>>
            /\ \E x \in 1..Len(base.hh) : \E y \in 1..Len(base.person) :
                /\ base.hh[x].congressional_district_geoid = 0
                /\ base.hh[x].household_weight > 0
                /\ base.person[y].person_household_id = base.hh[x].household_id
                /\ base.person[y].person_weight > 0
            /\ \E scen \in 1..Len(REFORMS) :
                LET hh == Simulate(log[k].dataset, log[k].state, scen).hh
                IN  \E x \in 1..Len(hh) : hh[x].congressional_district_geoid = NA

\* the person weight of the persons of `run` whose household is in district d
\* and who satisfy `sel`
WeightOf(run, d, sel(_)) ==
    SumSeq([y \in 1..Len(run.person) |->
        IF /\ \E x \in 1..Len(run.hh) :
                 /\ run.hh[x].household_id = run.person[y].person_household_id
                 /\ run.hh[x].congressional_district_geoid = d
           /\ sel(run.person[y])
        THEN run.person[y].person_weight ELSE 0])

\* rate is poor / total, or 0 when total is 0
IsRate(rate, poor, total) ==
    IF total = 0 THEN rate = Zero
    ELSE Finite(rate) /\ RatMul(rate, R(total)) = R(poor)

\* two households of district 7 with one person each, of equal weight, the
\* second in poverty
ExampleDistrict ==
    district_metrics(<<HH(1, 1, 7, 50, 0, 50, 1), HH(2, 1, 7, 10, 5, 10, 1)>>,
                     <<PN(1, 1, 1, FALSE, FALSE), PN(2, 2, 1, TRUE, FALSE)>>, 7)

\* C14: in every metrics record of every run, the poverty rate is the weight
\* of the persons in poverty over the weight of all persons whose household
\* is in the record's district, the child poverty rate is the same over the
\* children among them, each is 0 when its total weight is 0, and every
\* metric is a finite number; the two-person example gives 1/2.
C14_PovertyRates ==
    /\ \A k \in 1..Len(log) : \A scen \in 0..Len(REFORMS) :
        LET run == Simulate(log[k].dataset, log[k].state, scen)
            metrics == MetricsOfRun(log[k], scen)
        IN  \A x \in 1..Len(metrics) :
            LET m == metrics[x]
            IN  /\ IsRate(m.poverty,
                          WeightOf(run, m.district, LAMBDA p : p.in_poverty),
                          WeightOf(run, m.district, LAMBDA p : TRUE))
                /\ IsRate(m.child_poverty,
                          WeightOf(run, m.district, LAMBDA p : p.in_poverty /\ p.is_child),
                          WeightOf(run, m.district, LAMBDA p : p.is_child))
                /\ Finite(m.net_income) /\ Finite(m.poverty_gap) /\ Finite(m.gini_index)
    /\ ExampleDistrict.poverty = Rat(1, 2)

\* one returned state has a district whose persons have unequal weights, a
\* poverty rate strictly between 0 and 1 and another child poverty rate;
\* one has a district whose persons all have weight 0
C14_Witness ==
    /\ \E k \in 1..Len(log) : \E x \in 1..Len(log[k].baseline_metrics) :
        LET run == Simulate(log[k].dataset, log[k].state, 0)
            m == log[k].baseline_metrics[x]
        IN  /\ m.poverty \notin {Zero, One}
            /\ m.child_poverty \notin {Zero, One, m.poverty}
            /\ \E y \in 1..Len(run.person) : run.person[y].person_weight > 1
    /\ \E k \in 1..Len(log) : \E x \in 1..Len(log[k].baseline_metrics) :
        LET run == Simulate(log[k].dataset, log[k].state, 0)
            m == log[k].baseline_metrics[x]
        IN  /\ WeightOf(run, m.district, LAMBDA p : TRUE) = 0
            /\ \E y \in 1..Len(run.person) : \E z \in 1..Len(run.hh) :
                /\ run.hh[z].household_id = run.person[y].person_household_id
                /\ run.hh[z].congressional_district_geoid = m.district
                /\ run.person[y].in_poverty
            /\ m.poverty = Zero

====
